---- MODULE Spec2Model ----
(***************************************************************************)
(* Model of the real-time core of the digital-signage backend:             *)
(*   - the activation code counter      (src/routers/code.py)              *)
(*   - the activation handshake stream  (src/routers/code.py,              *)
(*                                       create_device in device.py)       *)
(*   - the device instruction session   (src/routers/device.py)            *)
(* Every request handler is a coroutine on one event loop: the code        *)
(* between two awaits is one atomic step, and each awaited Redis command   *)
(* takes effect at its own step.                                           *)
(***************************************************************************)
EXTENDS Integers, Sequences, FiniteSets, TLC

\* ------------------------------------------------------------------------
\* Bounds of the model
\* ------------------------------------------------------------------------
\* concurrent get_unique_activation_code requests
MaxCalls == 3
\* clients that request GET /codes/{code}/status
MaxStreams == 2
\* create_device requests
MaxRegistrations == 2
\* requests of both kinds served in one run
MaxRequests == 3
\* timer events (heartbeat ticks, 630 s timeouts) of the activation streams
\* in one run
MaxTimerEvents == 2
\* device sessions (GET /devices/me/instructions) opened in one run
MaxSessions == 2
\* send_snapshot_instruction requests
MaxSnapshots == 1
\* heartbeat ticks of the device sessions in one run
MaxSessionBeats == 1
\* get_all_devices_status streams
MaxObservers == 1
\* heartbeat ticks over all status streams
MaxObserverBeats == 1
\* create_setup requests
MaxSetupCalls == 1
\* update_setup requests
MaxUpdateCalls == 1
\* update_device_info requests
MaxInfoCalls == 1

\* ------------------------------------------------------------------------
\* Program constants
\* ------------------------------------------------------------------------
\* random.randint(100_000_000, 900_000_000): both ends included
SeedMin == 100000000
SeedMax == 900000000
\* if unique_code >= 999_999_999: reseed
CodeLimit == 999999999

VARIABLES
    \* ---- activation code counter (Redis key "activation_code_counter")
    activation_code_counter,  \* <<>> when the key does not exist, else <<n>>
    resets,                   \* number of overflow reseeds executed so far
    calls,                    \* per request: its position and what it read
    retlog,                   \* the codes returned so far, in return order
    \* ---- activation handshake
    streams,                  \* per activation stream: generator, tasks, queue, pubsub
    devices,                  \* the Device table, in insertion order
    reqs,                     \* per create_device request: its position and outcome
    \* ---- device sessions and instructions
    sessions,                 \* per device session: generator, tasks, queue, pubsub
    online_devices,           \* Redis set "online_devices", as the list of its members
    setups,                   \* the Setup table
    playlists,                \* the Playlist table, each row with its Image and Video rows
    pubs,                     \* every publish on a device:{id}:instructions topic, in order
    snaps,                    \* per send_snapshot_instruction request
    del,                      \* the delete_setup request
    observers,                \* per get_all_devices_status stream: generator, tasks, queue, pubsub
    creates,                  \* per create_setup request
    updates,                  \* per update_setup request
    infos                     \* per update_device_info request

codeVars == <<activation_code_counter, resets, calls, retlog>>
actVars == <<streams, reqs>>
sessVars ==
    <<sessions, online_devices, setups, playlists, pubs, snaps, del, observers, creates,
      updates, infos>>

vars == <<activation_code_counter, resets, calls, retlog, streams, devices, reqs,
          sessions, online_devices, setups, playlists, pubs, snaps, del, observers,
          creates, updates, infos>>

\* ========================================================================
\* Frames and payloads.  A text is a sequence of tokens; the substring test
\* of the code is the test for a token.
\* ========================================================================
\* f"event: {event}\ndata: {data}\n\n"
Frame(event, data) == <<"event:", event, "data:">> \o data

HeartbeatFrame == Frame("heartbeat", <<"heartbeat">>)

TimeoutItem == <<"TIMEOUT">>

\* json.dumps({"name": new_device.name, "api_key": new_device.api_key})
CredentialPayload(name, key) == <<"name">> \o name \o <<"api_key", key>>

\* `word in text`
Contains(text, word) == \E i \in DOMAIN text : text[i] = word

ActStreams == 1..MaxStreams
Reqs == 1..MaxRegistrations

IdleStream ==
    [pc |-> "idle", code |-> 0, subscribed |-> FALSE, inbox |-> <<>>,
     queue |-> <<>>, emitted |-> <<>>, listener |-> "none",
     heartbeat |-> "none", timeout |-> "none", beats |-> 0,
     pubsub_cleaned_up |-> FALSE, unsubscribes |-> 0]

Sessions == 1..MaxSessions
Snaps == 1..MaxSnapshots

\* an item of a session's pubsub, queue or output: its text, and for an
\* instruction the position of its publish in pubs (0 for a heartbeat)
IdleSession ==
    [pc |-> "idle", device |-> 0, subscribed |-> FALSE, inbox |-> <<>>,
     queue |-> <<>>, emitted |-> <<>>, listener |-> "none",
     heartbeat |-> "none", beats |-> 0, cause |-> "none",
     last_seen_writes |-> 0, srem |-> 0, offline |-> 0, unsubscribes |-> 0,
     removed |-> FALSE]

Observers == 1..MaxObservers

IdleObserver ==
    [pc |-> "idle", subscribed |-> FALSE, inbox |-> <<>>, queue |-> <<>>,
     emitted |-> <<>>, listener |-> "none", heartbeat |-> "none", beats |-> 0]

SetupCalls == 1..MaxSetupCalls

IdleCreate ==
    [pc |-> "idle", name |-> <<>>, devices |-> <<>>, setup |-> 0, device |-> 0,
     sent |-> <<>>, status |-> 0]

UpdateCalls == 1..MaxUpdateCalls

IdleUpdate ==
    [pc |-> "idle", setup |-> 0, name |-> <<>>, devices_to_add |-> <<>>,
     devices_to_remove |-> <<>>, pending |-> <<>>, sent |-> <<>>, status |-> 0]

InfoCalls == 1..MaxInfoCalls

IdleInfo == [pc |-> "idle", device |-> 0, was |-> 0, now |-> 0, status |-> 0]

IdleSnap == [pc |-> "idle", device |-> 0, numsub |-> 0, status |-> 0]

IdleDel == [pc |-> "idle", setup |-> 0, pending |-> <<>>, status |-> 0]

IdleReq ==
    [pc |-> "idle", code |-> 0, name |-> <<>>, numsub |-> 0, status |-> 0,
     device |-> 0, published |-> 0, nameTaken |-> FALSE, prior |-> 0]

\* ========================================================================
\* Activation code counter: get_unique_activation_code
\* ========================================================================
Calls == 1..MaxCalls

\* the seeds random.randint may draw that the model explores
SeedSamples == {SeedMin, SeedMin + 1, SeedMax}

\* counter values a long-running deployment can have left in Redis
InitCounters == {<<>>, <<CodeLimit - 2>>}

\* redis.exists(key)
RedisExists(key) == IF Len(key) = 0 THEN 0 ELSE 1

\* redis.incr(key): an absent key counts as 0
RedisIncr(key) == IF Len(key) = 0 THEN 1 ELSE key[1] + 1

IdleCall == [pc |-> "idle", code |-> 0, startLen |-> 0, startResets |-> 0]

\* no get_unique_activation_code request has arrived yet
CodeIdle ==
    /\ resets = 0
    /\ calls = [i \in Calls |-> IdleCall]
    /\ retlog = <<>>

\* no activation stream and no create_device request has arrived yet
ActIdle ==
    /\ streams = [a \in ActStreams |-> IdleStream]
    /\ reqs = [r \in Reqs |-> IdleReq]

\* no device session and no admin request on a device or setup has arrived yet
SessIdle ==
    /\ sessions = [s \in Sessions |-> IdleSession]
    /\ online_devices = <<>>
    /\ pubs = <<>>
    /\ snaps = [q \in Snaps |-> IdleSnap]
    /\ del = IdleDel
    /\ observers = [o \in Observers |-> IdleObserver]
    /\ creates = [c \in SetupCalls |-> IdleCreate]
    /\ updates = [u \in UpdateCalls |-> IdleUpdate]
    /\ infos = [i \in InfoCalls |-> IdleInfo]

InitCode ==
    /\ activation_code_counter \in InitCounters
    /\ CodeIdle
    /\ ActIdle
    /\ SessIdle
    /\ devices = <<>>
    /\ setups = {}
    /\ playlists = {}

\* the request returns {"code": unique_code}
ReturnCode(i, v) ==
    /\ calls' = [calls EXCEPT ![i].pc = "done", ![i].code = v]
    /\ retlog' = Append(retlog,
            [call |-> i, code |-> v, resets |-> resets,
             incr1 |-> IF calls[i].pc = "incr2" THEN calls[i].code ELSE v])

\* line 28: await redis.exists("activation_code_counter")
GetCodeExists(i) ==
    /\ calls[i].pc = "idle"
    /\ calls' = [calls EXCEPT
                   ![i].pc = IF RedisExists(activation_code_counter) = 0
                             THEN "seed" ELSE "incr",
                   ![i].startLen = Len(retlog),
                   ![i].startResets = resets]
    /\ UNCHANGED <<activation_code_counter, resets, retlog, actVars, devices, sessVars>>

\* lines 29-30: seed_value = random.randint(...); await redis.set(key, seed_value)
GetCodeSeed(i) ==
    /\ calls[i].pc = "seed"
    /\ \E s \in SeedSamples : activation_code_counter' = <<s>>
    /\ calls' = [calls EXCEPT ![i].pc = "incr"]
    /\ UNCHANGED <<resets, retlog, actVars, devices, sessVars>>

\* an overflow test that lets the limit itself through
OverflowsPast(v) == v > CodeLimit

\* line 33: if unique_code >= 999_999_999
Overflows(v) == v >= CodeLimit

\* lines 31-33: unique_code = await redis.incr(key); if unique_code >= 999_999_999
GetCodeIncr(i) ==
    /\ calls[i].pc = "incr"
    /\ LET v == RedisIncr(activation_code_counter) IN
        /\ activation_code_counter' = <<v>>
        /\ IF Overflows(v)
           THEN /\ calls' = [calls EXCEPT ![i].pc = "reset", ![i].code = v]
                /\ UNCHANGED retlog
           ELSE ReturnCode(i, v)
    /\ UNCHANGED <<resets, actVars, devices, sessVars>>

\* lines 34-36: await redis.set(key, random.randint(...))
GetCodeReset(i) ==
    /\ calls[i].pc = "reset"
    /\ \E s \in SeedSamples : activation_code_counter' = <<s>>
    /\ resets' = resets + 1
    /\ calls' = [calls EXCEPT ![i].pc = "incr2"]
    /\ UNCHANGED <<retlog, actVars, devices, sessVars>>

\* lines 37-39: unique_code = await redis.incr(key); return
GetCodeIncr2(i) ==
    /\ calls[i].pc = "incr2"
    /\ LET v == RedisIncr(activation_code_counter) IN
        /\ activation_code_counter' = <<v>>
        /\ ReturnCode(i, v)
    /\ UNCHANGED <<resets, actVars, devices, sessVars>>

NextCode ==
    \E i \in Calls :
        \/ GetCodeExists(i)
        \/ GetCodeSeed(i)
        \/ GetCodeIncr(i)
        \/ GetCodeReset(i)
        \/ GetCodeIncr2(i)

SpecCode == InitCode /\ [][NextCode]_vars

\* ------------------------------------------------------------------------
\* C9: no two calls return the same code unless the counter wrapped around
\* (an overflow reseed was executed) between the start of the earlier call
\* and the return of the later one; concurrent calls included.
\* ------------------------------------------------------------------------
C9_UniqueCodes ==
    \A j \in 1..Len(retlog) : \A k \in 1..Len(retlog) :
        (j < k /\ retlog[j].code = retlog[k].code)
            => retlog[k].resets > calls[retlog[j].call].startResets

\* ------------------------------------------------------------------------
\* C10: a call that starts after another has returned gets a strictly
\* greater code unless an overflow reseed lies between them, and the stored
\* counter never decreases other than by the overflow reseed.
\* ------------------------------------------------------------------------
C10_ReturnsIncrease ==
    \A k \in 1..Len(retlog) : \A j \in 1..calls[retlog[k].call].startLen :
        retlog[j].code < retlog[k].code
            \/ retlog[k].resets > retlog[j].resets

C10_CounterForward ==
    (/\ Len(activation_code_counter) = 1
     /\ Len(activation_code_counter') = 1
     /\ activation_code_counter'[1] < activation_code_counter[1])
        => resets' > resets

C10_Monotonic == [](C10_ReturnsIncrease) /\ [][C10_CounterForward]_vars

\* the least and the greatest value of DeviceCodeOutput.code
CodeMin == 100000000
CodeMax == 999999999

\* ------------------------------------------------------------------------
\* C11: every returned code lies in [100_000_000, 999_999_999]; a first
\* increment that yields 999_999_999 or more is never the returned code:
\* the counter was reseeded and the code is the new seed plus the increments
\* made since, at most two per call.
\* ------------------------------------------------------------------------
C11_CodesInRange ==
    \A k \in 1..Len(retlog) :
        /\ retlog[k].code >= CodeMin
        /\ retlog[k].code <= CodeMax
        /\ ~Overflows(retlog[k].code)
        /\ retlog[k].incr1 >= CodeLimit =>
            /\ retlog[k].code # retlog[k].incr1
            /\ retlog[k].resets >= 1
            /\ retlog[k].code > SeedMin
            /\ retlog[k].code <= SeedMax + 2 * MaxCalls

\* C11 witness: a call whose first increment overflowed has returned
C11_Witness ==
    \E k \in 1..Len(retlog) : retlog[k].incr1 >= CodeLimit


\* ========================================================================
\* Activation handshake: get_device_status_by_code and create_device
\* ========================================================================
\* the activation codes clients and admins use
Codes == {123456789, 123456790}

\* device names an admin may enter (1..255 characters of free text)
Names == {<<"Lobby-1">>, <<"heartbeat", "wall">>}

\* values secrets.token_urlsafe(32) may return
ApiKeys == {"k1", "k2", "k3", "k4"}

\* requests that have arrived, of both kinds
Served ==
    Cardinality({a \in ActStreams : streams[a].pc # "idle"})
        + Cardinality({r \in Reqs : reqs[r].pc # "idle"})

\* timer events so far, over all activation streams
RECURSIVE SumBeats(_)
SumBeats(n) == IF n = 0 THEN 0 ELSE streams[n].beats + SumBeats(n - 1)

TimerEvents ==
    SumBeats(MaxStreams) + Cardinality({a \in ActStreams : streams[a].timeout = "fired"})

\* redis.pubsub_numsub(code)[0][1]
NumSub(code) ==
    Cardinality({a \in ActStreams : streams[a].subscribed /\ streams[a].code = code})

\* redis.publish(code, payload): one message to every pubsub subscribed now.
\* A pubsub whose listener has stopped reading is never read again: what
\* reaches it is dropped.
PublishCode(code, payload) ==
    [a \in ActStreams |->
        IF /\ streams[a].subscribed
           /\ streams[a].code = code
           /\ streams[a].listener = "listening"
        THEN [streams[a] EXCEPT !.inbox = Append(@, payload)]
        ELSE streams[a]]

\* a registration that does not look the name up
DeviceNameUnchecked(name) == FALSE

\* select(Device).filter_by(name=name).first() is not None
DeviceNameExists(name) == \E k \in DOMAIN devices : devices[k].name = name

\* select(Device).filter_by(api_key=key).first() is not None
ApiKeyExists(key) == \E k \in DOMAIN devices : devices[k].api_key = key

InitActivation ==
    /\ activation_code_counter = <<>>
    /\ CodeIdle
    /\ ActIdle
    /\ SessIdle
    /\ devices = <<>>
    /\ setups = {}
    /\ playlists = {}

\* ---- get_device_status_by_code -----------------------------------------
\* a check that lets a second subscriber in
CodeUnavailableOverOne(channel_subscriber_number) == channel_subscriber_number > 1

\* line 72: if channel_subscriber_number != 0, answered 400 (lines 73-76)
CodeUnavailable(channel_subscriber_number) == channel_subscriber_number # 0

\* lines 70-76: the subscriber count is read and the request rejected with
\* 400 when it is not 0; otherwise the StreamingResponse is returned and the
\* generator runs to its first await, pubsub.subscribe(code) (line 81)
StatusRequest(a, code) ==
    /\ streams[a].pc = "idle"
    /\ \A b \in ActStreams : b < a => streams[b].pc # "idle"
    /\ Served < MaxRequests
    /\ streams' = [streams EXCEPT
                     ![a].code = code,
                     ![a].pc = IF CodeUnavailable(NumSub(code))
                               THEN "rejected" ELSE "subscribing"]
    /\ UNCHANGED <<devices, reqs, codeVars, sessVars>>

\* lines 81-120: the subscription takes effect, the queue is created, the
\* three tasks are created and run to their first await, and the generator
\* waits on queue.get()
StreamSubscribe(a) ==
    /\ streams[a].pc = "subscribing"
    /\ streams' = [streams EXCEPT
                     ![a].subscribed = TRUE,
                     ![a].pc = "streaming",
                     ![a].listener = "listening",
                     ![a].heartbeat = "sleeping",
                     ![a].timeout = "sleeping"]
    /\ UNCHANGED <<devices, reqs, codeVars, sessVars>>

\* lines 88-91: the listener takes the message, queues its frame and breaks
StreamListenerMessage(a) ==
    /\ streams[a].listener = "listening"
    /\ streams[a].inbox # <<>>
    /\ streams' = [streams EXCEPT
                     ![a].inbox = Tail(@),
                     ![a].queue = Append(@, Frame("message", Head(streams[a].inbox))),
                     ![a].listener = "done"]
    /\ UNCHANGED <<devices, reqs, codeVars, sessVars>>

\* lines 108-110: a heartbeat tick
StreamHeartbeat(a) ==
    /\ streams[a].heartbeat = "sleeping"
    /\ TimerEvents < MaxTimerEvents
    /\ streams' = [streams EXCEPT
                     ![a].queue = Append(@, HeartbeatFrame),
                     ![a].beats = @ + 1]
    /\ UNCHANGED <<devices, reqs, codeVars, sessVars>>

\* lines 100-101: the 630 s timer fires
StreamTimeout(a) ==
    /\ streams[a].timeout = "sleeping"
    /\ TimerEvents < MaxTimerEvents
    /\ streams' = [streams EXCEPT
                     ![a].queue = Append(@, TimeoutItem),
                     ![a].timeout = "fired"]
    /\ UNCHANGED <<devices, reqs, codeVars, sessVars>>

\* task.cancel(): a task that has finished is left alone
CancelTask(state) == IF state \in {"listening", "sleeping"} THEN "cancelled" ELSE state

\* a cancelled heartbeat or timeout task ends in `except CancelledError: pass`
CancelSleeper(state) == IF state = "sleeping" THEN "done" ELSE state

\* a teardown that takes the listener's cleanup for done
CleanedUpAssumed(st) == TRUE

\* line 134: the flag the listener's cancellation handler sets
CleanedUp(st) == st.pubsub_cleaned_up

\* lines 129-134: finally: the three tasks are cancelled and
\* pubsub_cleaned_up is read. Nothing reads the queue or the pubsub's
\* pending messages any more.
StreamFinally(st) ==
    [st EXCEPT
        !.listener = CancelTask(@),
        !.heartbeat = CancelSleeper(@),
        !.timeout = CancelSleeper(@),
        !.queue = <<>>,
        !.inbox = <<>>,
        !.pc = IF CleanedUp(st) THEN "closed" ELSE "unsubscribe"]

\* lines 127-128: whether the loop goes on after a frame was yielded
KeepsStreaming(item) == Contains(item, "heartbeat")

\* a loop that takes no item for the timeout mark
IsTimeoutNever(item) == FALSE

\* line 122: if item == "TIMEOUT"
IsTimeout(item) == item = TimeoutItem

\* lines 119-128: one turn of the generator's loop
StreamLoop(a) ==
    /\ streams[a].pc = "streaming"
    /\ streams[a].queue # <<>>
    /\ LET item == Head(streams[a].queue)
           st == [streams[a] EXCEPT !.queue = Tail(@)]
       IN streams' = [streams EXCEPT ![a] =
            IF IsTimeout(item)
            THEN StreamFinally(st)
            ELSE IF KeepsStreaming(item)
                 THEN [st EXCEPT !.emitted = Append(@, item)]
                 ELSE StreamFinally([st EXCEPT !.emitted = Append(@, item)])]
    /\ UNCHANGED <<devices, reqs, codeVars, sessVars>>

\* the client goes away: the generator is cancelled where it waits. At line
\* 81 that is outside the try: nothing was started and nothing is cleaned up;
\* at queue.get() or at the yield the finally block runs.
StreamDisconnect(a) ==
    /\ streams[a].pc \in {"subscribing", "streaming"}
    /\ streams' = [streams EXCEPT ![a] =
            IF streams[a].pc = "subscribing"
            THEN [streams[a] EXCEPT !.pc = "closed"]
            ELSE StreamFinally(streams[a])]
    /\ UNCHANGED <<devices, reqs, codeVars, sessVars>>

\* lines 135-136: await pubsub.unsubscribe(code); await pubsub.aclose().
\* Closing a pubsub that has just unsubscribed changes nothing another
\* request or task can see, so the two awaits are one step.
StreamUnsubscribe(a) ==
    /\ streams[a].pc = "unsubscribe"
    /\ streams' = [streams EXCEPT
                     ![a].subscribed = FALSE,
                     ![a].unsubscribes = @ + 1,
                     ![a].pc = "closed"]
    /\ UNCHANGED <<devices, reqs, codeVars, sessVars>>

\* lines 92-94: the cancelled listener unsubscribes and sets the flag
StreamListenerCancelled(a) ==
    /\ streams[a].listener = "cancelled"
    /\ streams' = [streams EXCEPT
                     ![a].subscribed = FALSE,
                     ![a].unsubscribes = @ + 1,
                     ![a].pubsub_cleaned_up = TRUE,
                     ![a].listener = "done"]
    /\ UNCHANGED <<devices, reqs, codeVars, sessVars>>

\* ---- create_device -----------------------------------------------------
\* the duplicate-name check made before the subscriber check
CreateDeviceStatusNameFirst(numsub, nameExists) ==
    IF nameExists THEN 409
    ELSE IF numsub = 0 THEN 404
    ELSE 200

\* lines 48-61: the response status the two checks give
CreateDeviceStatus(numsub, nameExists) ==
    IF numsub = 0 THEN 404
    ELSE IF nameExists THEN 409
    ELSE 200

\* the devices created against the code so far
CreatedAgainst(code) ==
    Cardinality({q \in Reqs : reqs[q].code = code /\ reqs[q].device # 0})

\* line 48: await redis.pubsub_numsub(data.code). prior records how many
\* devices had been created against the code when the request arrived.
CreateDeviceNumsub(r, code, name) ==
    /\ reqs[r].pc = "idle"
    /\ \A q \in Reqs : q < r => reqs[q].pc # "idle"
    /\ Served < MaxRequests
    /\ reqs' = [reqs EXCEPT ![r].pc = "checked", ![r].code = code,
                            ![r].name = name, ![r].numsub = NumSub(code),
                            ![r].prior = CreatedAgainst(code)]
    /\ UNCHANGED <<streams, devices, codeVars, sessVars>>

\* lines 63-67: generate_api_key() is drawn again until no row has the key.
\* The tokens are opaque: the model takes the first unused one.
FreshApiKey == CHOOSE key \in ApiKeys : ~ApiKeyExists(key)

\* lines 49-76: the two checks, the api key and the commit of the new row.
\* nameTaken records whether a row had the name when the request resumed.
CreateDeviceCommit(r) ==
    /\ reqs[r].pc = "checked"
    /\ LET taken == DeviceNameExists(reqs[r].name)
           st == CreateDeviceStatus(reqs[r].numsub, taken) IN
        IF st # 200
        THEN /\ reqs' = [reqs EXCEPT ![r].pc = "done", ![r].status = st,
                                     ![r].nameTaken = taken]
             /\ UNCHANGED devices
        ELSE /\ devices' = Append(devices, [id |-> Len(devices) + 1,
                                            name |-> reqs[r].name,
                                            api_key |-> FreshApiKey,
                                            setup_id |-> 0])
             /\ reqs' = [reqs EXCEPT ![r].pc = "publish",
                                     ![r].device = Len(devices) + 1]
    /\ UNCHANGED <<streams, codeVars, sessVars>>

\* lines 78-82: await redis.publish(data.code, ...); return new_device
CreateDevicePublish(r) ==
    /\ reqs[r].pc = "publish"
    /\ LET d == devices[reqs[r].device] IN
        streams' = PublishCode(reqs[r].code, CredentialPayload(d.name, d.api_key))
    /\ reqs' = [reqs EXCEPT ![r].pc = "done", ![r].status = 200,
                            ![r].published = @ + 1]
    /\ UNCHANGED <<devices, codeVars, sessVars>>

NextActivation ==
    \/ \E a \in ActStreams :
        \/ \E code \in Codes : StatusRequest(a, code)
        \/ StreamSubscribe(a)
        \/ StreamListenerMessage(a)
        \/ StreamHeartbeat(a)
        \/ StreamTimeout(a)
        \/ StreamLoop(a)
        \/ StreamDisconnect(a)
        \/ StreamUnsubscribe(a)
        \/ StreamListenerCancelled(a)
    \/ \E r \in Reqs :
        \/ \E code \in Codes, name \in Names : CreateDeviceNumsub(r, code, name)
        \/ CreateDeviceCommit(r)
        \/ CreateDevicePublish(r)

SpecActivation == InitActivation /\ [][NextActivation]_vars

\* ------------------------------------------------------------------------
\* C3: a stream emits at most one message frame, that frame carries the name
\* and api_key of a created device, and once it is emitted the stream has
\* left its loop; a closed stream holds no subscription to the code topic.
\* ------------------------------------------------------------------------
IsMessageFrame(item) == item[2] = "message"

IsCredentialFrame(item) ==
    \E k \in DOMAIN devices :
        item = Frame("message", CredentialPayload(devices[k].name, devices[k].api_key))

C3_OneCredentialThenEnd ==
    \A a \in ActStreams :
        LET msgs == SelectSeq(streams[a].emitted, IsMessageFrame) IN
        /\ Len(msgs) <= 1
        /\ msgs # <<>> =>
            /\ IsCredentialFrame(msgs[1])
            /\ streams[a].pc # "streaming"
        /\ (streams[a].pc = "closed" /\ streams[a].listener = "done")
                => ~streams[a].subscribed

\* no create_device request has published on the topic of the code
NothingPublishedOn(code) ==
    \A r \in Reqs : reqs[r].code = code => reqs[r].published = 0

\* the item is in the queue
Queued(a, item) == \E i \in DOMAIN streams[a].queue : streams[a].queue[i] = item

\* ------------------------------------------------------------------------
\* C12: a stream whose 630 s timer has fired and on whose code nothing was
\* published has emitted heartbeat frames only; once the timeout mark has
\* left its queue the stream is out of its loop, and when it is closed and
\* its listener has ended it holds no subscription.
\* ------------------------------------------------------------------------
C12_TimeoutEndsSilently ==
    \A a \in ActStreams :
        (streams[a].timeout = "fired" /\ NothingPublishedOn(streams[a].code)) =>
            /\ \A i \in DOMAIN streams[a].emitted :
                    streams[a].emitted[i] = HeartbeatFrame
            /\ ~Queued(a, TimeoutItem) => streams[a].pc \in {"unsubscribe", "closed"}
            /\ (streams[a].pc = "closed" /\ streams[a].listener = "done")
                    => ~streams[a].subscribed

\* C12 witness: a stream has emitted a heartbeat, its timer has fired with
\* nothing published on its code, and it has closed and unsubscribed
C12_Witness ==
    \E a \in ActStreams :
        /\ streams[a].timeout = "fired"
        /\ NothingPublishedOn(streams[a].code)
        /\ streams[a].emitted # <<>>
        /\ streams[a].pc = "closed"
        /\ streams[a].listener = "done"
        /\ streams[a].unsubscribes >= 1
        /\ ~streams[a].subscribed

\* ------------------------------------------------------------------------
\* C4: of the create_device requests made against a code that only one
\* client ever waited on, at most one creates a device.
\* ------------------------------------------------------------------------
Waiters(code) ==
    {a \in ActStreams : streams[a].code = code /\ streams[a].pc \notin {"idle", "rejected"}}

Creators(code) ==
    {r \in Reqs : reqs[r].code = code /\ reqs[r].device # 0}

C4_OneCreationPerWaiter ==
    \A code \in Codes :
        Cardinality(Waiters(code)) <= 1 => Cardinality(Creators(code)) <= 1

\* ------------------------------------------------------------------------
\* C13: a create_device request that arrives after a device was created
\* against its code creates no device, as long as the code counter has not
\* wrapped around.
\* ------------------------------------------------------------------------
C13_CodeUsedOnce ==
    resets = 0 =>
        \A r \in Reqs : reqs[r].prior > 0 => reqs[r].device = 0

\* ------------------------------------------------------------------------
\* C5: at any time at most one activation stream is subscribed to the topic
\* of a code.
\* ------------------------------------------------------------------------
C5_OneSubscriberPerCode == \A code \in Codes : NumSub(code) <= 1

\* ------------------------------------------------------------------------
\* C6: a create_device request that read zero subscribers on its code ends
\* with 404, having created no device row and published nothing, also when
\* a row already has the requested name.
\* ------------------------------------------------------------------------
C6_NoSubscriberRejected ==
    /\ \A r \in Reqs :
        (reqs[r].pc \notin {"idle", "checked"} /\ reqs[r].numsub = 0) =>
            /\ reqs[r].pc = "done"
            /\ reqs[r].status = 404
            /\ reqs[r].device = 0
            /\ reqs[r].published = 0
    /\ \A k \in DOMAIN devices :
        \E r \in Reqs : reqs[r].device = k /\ reqs[r].numsub # 0

\* a request was rejected for want of a subscriber while a row had its name
C6_Witness ==
    \E r \in Reqs :
        /\ reqs[r].pc = "done"
        /\ reqs[r].numsub = 0
        /\ reqs[r].status = 404
        /\ reqs[r].nameTaken


\* ========================================================================
\* Device sessions: get_current_device_instructions, and the admin requests
\* that publish on device:{id}:instructions
\* ========================================================================
\* the Device rows the sessions run against: two activated devices, both
\* assigned to setup 1
RegisteredDevices ==
    <<[id |-> 1, name |-> <<"Lobby-1">>, api_key |-> "k1", setup_id |-> 1],
      [id |-> 2, name |-> <<"Hall">>, api_key |-> "k2", setup_id |-> 1]>>

\* the Setup rows there are at the start
StoredSetups == {[id |-> 1, name |-> <<"Morning">>]}

\* the Playlist rows there are at the start: one playlist of setup 1 with
\* one image
StoredPlaylists ==
    {[id |-> 1, setup_id |-> 1, name |-> <<"All day">>, start_time |-> <<0, 0>>,
      end_time |-> <<23, 59>>, days |-> {"monday"}, images |-> <<"u1">>,
      videos |-> <<>>]}

\* a device id no row has
NoSuchDevice == 9

\* a setup id no row has
NoSuchSetup == 9

\* upload urls an admin may give
Urls == {"u1"}

InitSession ==
    /\ activation_code_counter = <<>>
    /\ CodeIdle
    /\ ActIdle
    /\ SessIdle
    /\ devices = RegisteredDevices
    /\ setups = StoredSetups
    /\ playlists = StoredPlaylists

\* select(Device).filter_by(id=device_id).first() is not None
DeviceExists(d) == \E k \in DOMAIN devices : devices[k].id = d

\* redis.sadd writing the member again although the set holds it
SAddAgain(members, d) == Append(members, d)

\* redis.sadd("online_devices", d)
SAdd(members, d) ==
    IF \E k \in DOMAIN members : members[k] = d THEN members ELSE Append(members, d)

\* redis.srem("online_devices", d)
SRem(members, d) == SelectSeq(members, LAMBDA m : m # d)

\* list(await redis.smembers("online_devices"))
SMembers(members) == members

\* queue.put at the head of the queue
QueuePutFirst(queue, item) == <<item>> \o queue

\* asyncio.Queue.put: first in, first out
QueuePut(queue, item) == Append(queue, item)

\* json.dumps({"instruction": "update_setup"})
UpdateSetupPayload == <<"instruction", "update_setup">>

\* json.dumps({"instruction": "snapshot", "url": data.url})
SnapshotPayload(url) == <<"instruction", "snapshot", "url", url>>

\* the sessions whose pubsub is subscribed to device:{d}:instructions
Subscribers(d) ==
    {s \in Sessions : sessions[s].subscribed /\ sessions[s].device = d}

\* redis.pubsub_numsub(f"device:{d}:instructions")[0][1]
DeviceNumSub(d) == Cardinality(Subscribers(d))

\* a publish that is kept for the sessions of the device that have yet to
\* subscribe
ReceiversRetained(d) ==
    {s \in Sessions : sessions[s].device = d
                      /\ sessions[s].pc \in {"sadd", "subscribing", "streaming"}}

\* a publish that reaches one subscriber only, the one of the oldest session
ReceiversOne(d) ==
    {s \in Subscribers(d) : \A t \in Subscribers(d) : s <= t}

\* the pubsubs a publish on device:{d}:instructions reaches: those
\* subscribed now
Receivers(d) == Subscribers(d)

\* the listener task was cancelled or has ended
ListenerStopped(st) ==
    st.listener \in {"cancelled", "publish_offline", "unsubscribe", "done"}

\* redis.publish(f"device:{d}:instructions", payload). A pubsub whose
\* listener has stopped reading is never read again: what reaches it is
\* dropped.
PublishInstruction(d, payload, by) ==
    /\ pubs' = Append(pubs, [device |-> d, payload |-> payload, by |-> by,
                             audience |-> Subscribers(d)])
    /\ sessions' = [s \in Sessions |->
         IF s \in Receivers(d) /\ ~ListenerStopped(sessions[s])
         THEN [sessions[s] EXCEPT
                 !.inbox = Append(@, [seq |-> Len(pubs) + 1, text |-> payload])]
         ELSE sessions[s]]

\* heartbeat ticks so far, over all device sessions
RECURSIVE SumSessionBeats(_)
SumSessionBeats(n) ==
    IF n = 0 THEN 0 ELSE sessions[n].beats + SumSessionBeats(n - 1)

\* the device is a member of the online set
IsOnline(d) == \E k \in DOMAIN online_devices : online_devices[k] = d

\* json.dumps({"id": device.id, "status": status}). noop is not part
\* of the payload: it records whether the publisher's presence mark changed
\* nothing (the device was in the set already at an online event, was not
\* in the set at the srem before an offline event).
StatusPayload(d, status, noop) == [id |-> d, status |-> status, noop |-> noop]

\* redis.publish("devices:status", payload): one message to every status
\* stream subscribed now
PublishStatus(payload) ==
    [o \in Observers |->
        IF observers[o].subscribed /\ observers[o].listener = "listening"
        THEN [observers[o] EXCEPT !.inbox = Append(@, payload)]
        ELSE observers[o]]

\* ---- get_current_device_instructions -----------------------------------
\* lines 206-211: last_seen is committed (no request reads it) and the
\* online event is published on devices:status
SessionOpen(s, d) ==
    /\ sessions[s].pc = "idle"
    /\ \A t \in Sessions : t < s => sessions[t].pc # "idle"
    /\ DeviceExists(d)
    /\ sessions' = [sessions EXCEPT ![s].pc = "sadd", ![s].device = d,
                                    ![s].last_seen_writes = @ + 1]
    /\ observers' = PublishStatus(StatusPayload(d, "online", IsOnline(d)))
    /\ UNCHANGED <<online_devices, setups, playlists, pubs, snaps, del, devices, creates, updates, infos, codeVars, actVars>>

\* lines 212-217: the device joins the online set, the response is returned,
\* and the generator runs to its first await, pubsub.subscribe
SessionSadd(s) ==
    /\ sessions[s].pc = "sadd"
    /\ online_devices' = SAdd(online_devices, sessions[s].device)
    /\ sessions' = [sessions EXCEPT ![s].pc = "subscribing"]
    /\ UNCHANGED <<setups, playlists, pubs, snaps, del, devices, observers, creates, updates, infos, codeVars, actVars>>

\* lines 217-246: the subscription takes effect, the queue is created, both
\* tasks are created and run to their first await, and the generator waits
\* on queue.get()
SessionSubscribe(s) ==
    /\ sessions[s].pc = "subscribing"
    /\ sessions' = [sessions EXCEPT
                      ![s].subscribed = TRUE,
                      ![s].pc = "streaming",
                      ![s].listener = "listening",
                      ![s].heartbeat = "sleeping"]
    /\ UNCHANGED <<online_devices, setups, playlists, pubs, snaps, del, devices, observers, creates, updates, infos, codeVars, actVars>>

\* lines 223-225: the listener takes the next message and queues its frame
SessionListenerMessage(s) ==
    /\ sessions[s].listener = "listening"
    /\ sessions[s].inbox # <<>>
    /\ LET m == Head(sessions[s].inbox) IN
        sessions' = [sessions EXCEPT
                       ![s].inbox = Tail(@),
                       ![s].queue = QueuePut(@, [seq |-> m.seq,
                                                 text |-> Frame("message", m.text)])]
    /\ UNCHANGED <<online_devices, setups, playlists, pubs, snaps, del, devices, observers, creates, updates, infos, codeVars, actVars>>

\* lines 235-237: a heartbeat tick
SessionHeartbeat(s) ==
    /\ sessions[s].heartbeat = "sleeping"
    /\ SumSessionBeats(MaxSessions) < MaxSessionBeats
    /\ sessions' = [sessions EXCEPT
                      ![s].queue = QueuePut(@, [seq |-> 0, text |-> HeartbeatFrame]),
                      ![s].beats = @ + 1]
    /\ UNCHANGED <<online_devices, setups, playlists, pubs, snaps, del, devices, observers, creates, updates, infos, codeVars, actVars>>

\* lines 249-255: finally: both tasks are cancelled and last_seen is
\* committed. Nothing reads the queue or the pubsub's pending messages any
\* more.
SessionFinally(st, why) ==
    [st EXCEPT
        !.pc = "closed",
        !.cause = why,
        !.listener = CancelTask(@),
        !.heartbeat = CancelSleeper(@),
        !.queue = <<>>,
        !.inbox = <<>>,
        !.last_seen_writes = @ + 1]

\* a loop that is left once an instruction was yielded
LoopEndsOnInstruction(item) == item.seq > 0

\* lines 245-248: `while True` with no break and no return: no item ends
\* the loop
LoopEnds(item) == FALSE

\* lines 245-248: one turn of the generator's loop
SessionLoop(s) ==
    /\ sessions[s].pc = "streaming"
    /\ sessions[s].queue # <<>>
    /\ LET item == Head(sessions[s].queue)
           st == [sessions[s] EXCEPT !.queue = Tail(@), !.emitted = Append(@, item)]
       IN sessions' = [sessions EXCEPT ![s] =
            IF LoopEnds(item) THEN SessionFinally(st, "loop") ELSE st]
    /\ UNCHANGED <<online_devices, setups, playlists, pubs, snaps, del, devices, observers, creates, updates, infos, codeVars, actVars>>

\* the session is ended, by the client going away or by the server: the
\* generator is cancelled where it waits. At line 217 that is outside the
\* try: no task was started and no cleanup runs; at queue.get() or at the
\* yield the finally block runs.
SessionTerminate(s, why) ==
    /\ sessions[s].pc \in {"subscribing", "streaming"}
    /\ sessions' = [sessions EXCEPT ![s] =
            IF sessions[s].pc = "subscribing"
            THEN [sessions[s] EXCEPT !.pc = "closed", !.cause = why]
            ELSE SessionFinally(sessions[s], why)]
    /\ UNCHANGED <<online_devices, setups, playlists, pubs, snaps, del, devices, observers, creates, updates, infos, codeVars, actVars>>

\* lines 226-227: the cancelled listener removes the device from the set
SessionListenerSrem(s) ==
    /\ sessions[s].listener = "cancelled"
    /\ online_devices' = SRem(online_devices, sessions[s].device)
    /\ sessions' = [sessions EXCEPT ![s].listener = "publish_offline",
                                    ![s].srem = @ + 1,
                                    ![s].removed = IsOnline(sessions[s].device)]
    /\ UNCHANGED <<setups, playlists, pubs, snaps, del, devices, observers, creates, updates, infos, codeVars, actVars>>

\* lines 228-229: it publishes the offline event on devices:status
SessionListenerOffline(s) ==
    /\ sessions[s].listener = "publish_offline"
    /\ sessions' = [sessions EXCEPT ![s].listener = "unsubscribe",
                                    ![s].offline = @ + 1,
                                    ![s].removed = FALSE]
    /\ observers' = PublishStatus(StatusPayload(sessions[s].device, "offline",
                                                ~sessions[s].removed))
    /\ UNCHANGED <<online_devices, setups, playlists, pubs, snaps, del, devices, creates, updates, infos, codeVars, actVars>>

\* line 230: it unsubscribes
SessionListenerUnsubscribe(s) ==
    /\ sessions[s].listener = "unsubscribe"
    /\ sessions' = [sessions EXCEPT ![s].listener = "done",
                                    ![s].subscribed = FALSE,
                                    ![s].unsubscribes = @ + 1]
    /\ UNCHANGED <<online_devices, setups, playlists, pubs, snaps, del, devices, observers, creates, updates, infos, codeVars, actVars>>

\* ---- send_snapshot_instruction -----------------------------------------
\* lines 354-361: the device is looked up (404) and the subscriber count of
\* its topic is read
SnapshotCheck(q, d) ==
    /\ snaps[q].pc = "idle"
    /\ \A p \in Snaps : p < q => snaps[p].pc # "idle"
    /\ snaps' = [snaps EXCEPT ![q] =
            IF ~DeviceExists(d)
            THEN [pc |-> "done", device |-> d, numsub |-> 0, status |-> 404]
            ELSE [pc |-> "checked", device |-> d, numsub |-> DeviceNumSub(d),
                  status |-> 0]]
    /\ UNCHANGED <<sessions, online_devices, setups, playlists, pubs, del, devices, observers, creates, updates, infos, codeVars, actVars>>

\* an offline test that never rejects
NoSubscriberNever(numsub) == FALSE

\* line 361: pubsub_numsub(...)[0][1] == 0
NoSubscriber(numsub) == numsub = 0

\* lines 361-371: 409 when the count was 0, else the instruction is published
SnapshotPublish(q, url) ==
    /\ snaps[q].pc = "checked"
    /\ IF NoSubscriber(snaps[q].numsub)
       THEN /\ snaps' = [snaps EXCEPT ![q].pc = "done", ![q].status = 409]
            /\ UNCHANGED <<sessions, pubs>>
       ELSE /\ PublishInstruction(snaps[q].device, SnapshotPayload(url), "snapshot")
            /\ snaps' = [snaps EXCEPT ![q].pc = "done", ![q].status = 200]
    /\ UNCHANGED <<online_devices, setups, playlists, del, devices, observers, creates, updates, infos, codeVars, actVars>>

\* ---- delete_setup ------------------------------------------------------
\* setup.devices, in id order
LinkedDevices(setup_id) ==
    LET rows == SelectSeq(devices, LAMBDA row : row.setup_id = setup_id)
    IN [k \in DOMAIN rows |-> rows[k].id]

\* session.delete(setup); session.commit(): the row goes with its playlists
\* (cascade "all, delete-orphan"), and the devices that pointed to it point
\* to no setup
DeleteSetupRow(setup_id) ==
    /\ setups' = {row \in setups : row.id # setup_id}
    /\ playlists' = {row \in playlists : row.setup_id # setup_id}
    /\ devices' = [k \in DOMAIN devices |->
                     IF devices[k].setup_id = setup_id
                     THEN [devices[k] EXCEPT !.setup_id = 0]
                     ELSE devices[k]]

\* lines 211-216, 223-225: the setup is looked up (404); with no linked
\* device it is deleted at once
DeleteSetupStart(setup_id) ==
    /\ del.pc = "idle"
    /\ IF ~(\E row \in setups : row.id = setup_id)
       THEN /\ del' = [del EXCEPT !.pc = "done", !.setup = setup_id, !.status = 404]
            /\ UNCHANGED <<setups, playlists, devices>>
       ELSE IF LinkedDevices(setup_id) = <<>>
            THEN /\ DeleteSetupRow(setup_id)
                 /\ del' = [del EXCEPT !.pc = "done", !.setup = setup_id, !.status = 200]
            ELSE /\ del' = [del EXCEPT !.pc = "notify", !.setup = setup_id,
                                       !.pending = LinkedDevices(setup_id)]
                 /\ UNCHANGED <<setups, playlists, devices>>
    /\ UNCHANGED <<sessions, online_devices, pubs, snaps, observers, creates, updates, infos, codeVars, actVars>>

\* lines 219-221: one update_setup instruction is published
DeleteSetupNotify ==
    /\ del.pc = "notify"
    /\ del.pending # <<>>
    /\ PublishInstruction(Head(del.pending), UpdateSetupPayload, "delete_setup")
    /\ del' = [del EXCEPT !.pending = Tail(@)]
    /\ UNCHANGED <<online_devices, setups, playlists, snaps, devices, observers, creates, updates, infos, codeVars, actVars>>

\* lines 222-225: after the last publish the setup is deleted and committed
DeleteSetupCommit ==
    /\ del.pc = "notify"
    /\ del.pending = <<>>
    /\ DeleteSetupRow(del.setup)
    /\ del' = [del EXCEPT !.pc = "done", !.status = 200]
    /\ UNCHANGED <<sessions, online_devices, pubs, snaps, observers, creates, updates, infos, codeVars, actVars>>

\* ---- get_all_devices_status ---------------------------------------------
\* lines 297-298: the snapshot a status stream reads when it reads the online
\* set now: smembers is one Redis command, and the stream changes nothing
InitDevices == SMembers(online_devices)

NextSession ==
    \/ \E s \in Sessions :
        \/ \E d \in 1..Len(devices) : SessionOpen(s, d)
        \/ SessionSadd(s)
        \/ SessionSubscribe(s)
        \/ SessionListenerMessage(s)
        \/ SessionHeartbeat(s)
        \/ SessionLoop(s)
        \/ \E why \in {"disconnect", "cancel"} : SessionTerminate(s, why)
        \/ SessionListenerSrem(s)
        \/ SessionListenerOffline(s)
        \/ SessionListenerUnsubscribe(s)
    \/ \E q \in Snaps :
        \/ \E d \in (1..Len(devices)) \cup {NoSuchDevice} : SnapshotCheck(q, d)
        \/ \E url \in Urls : SnapshotPublish(q, url)
    \/ \E setup_id \in {1, NoSuchSetup} : DeleteSetupStart(setup_id)
    \/ DeleteSetupNotify
    \/ DeleteSetupCommit

SpecSession == InitSession /\ [][NextSession]_vars

\* ---- claims on device sessions -----------------------------------------
\* the session has ended and no task of it has a step left
SessionOver(s) ==
    /\ sessions[s].pc = "closed"
    /\ sessions[s].listener \in {"none", "done"}

\* C1: every session that has ended, by disconnect or by cancellation,
\* wherever it was ended, has run each cleanup step exactly once: one
\* unsubscribe, one removal from the online set, one offline event, and one
\* last-seen write besides the one made when it was opened.
C1_CleanupOncePerSession ==
    \A s \in Sessions :
        SessionOver(s) =>
            /\ sessions[s].unsubscribes = 1
            /\ sessions[s].srem = 1
            /\ sessions[s].offline = 1
            /\ sessions[s].last_seen_writes = 2

\* no value occurs at two positions of the list
NoDuplicates(list) ==
    \A i, j \in DOMAIN list : list[i] = list[j] => i = j

\* the sessions that have added their device to the online set and have not
\* removed it
Attached(d) ==
    {s \in Sessions : /\ sessions[s].device = d
                      /\ sessions[s].pc \in {"subscribing", "streaming", "closed"}
                      /\ sessions[s].srem = 0}

\* C2: whatever attach and detach steps have been taken, no device id is
\* twice in the online set, nor in the snapshot a status stream reads from it.
C2_OnlineOnce ==
    /\ NoDuplicates(online_devices)
    /\ NoDuplicates(InitDevices)

\* C2 witness: two sessions of one device have both added it, and it is in
\* the snapshot
C2_Witness ==
    \E d \in 1..Len(devices) :
        /\ Cardinality(Attached(d)) = 2
        /\ \E k \in DOMAIN InitDevices : InitDevices[k] = d

\* the instructions among the items, as their positions in pubs
RECURSIVE Instructions(_)
Instructions(items) ==
    IF items = <<>> THEN <<>>
    ELSE IF Head(items).seq = 0 THEN Instructions(Tail(items))
    ELSE <<Head(items).seq>> \o Instructions(Tail(items))

\* the publishes made by delete_setup
DeleteSetupPublishes == {k \in DOMAIN pubs : pubs[k].by = "delete_setup"}

\* C7: a publish made while no session of the device was subscribed does not
\* fail its request (delete_setup still answers 200, having published to
\* every linked device), and no session ever holds or emits that message:
\* whatever a session was handed or emitted was published to its own device
\* while it was subscribed.
C7_LostWhenUnattended ==
    /\ \A s \in Sessions :
        \A k \in DOMAIN pubs :
            (\/ \E i \in DOMAIN sessions[s].inbox : sessions[s].inbox[i].seq = k
             \/ \E i \in DOMAIN sessions[s].queue : sessions[s].queue[i].seq = k
             \/ \E i \in DOMAIN sessions[s].emitted : sessions[s].emitted[i].seq = k)
            => /\ pubs[k].device = sessions[s].device
               /\ s \in pubs[k].audience
    /\ (del.pc = "done" /\ del.setup = 1)
        => /\ del.status = 200
           /\ Cardinality(DeleteSetupPublishes) = Len(RegisteredDevices)

\* C7 witness: an instruction was published to a device nobody was
\* subscribed for, the request ended with 200, and a session of that device
\* subscribed later has emitted frames
C7_Witness ==
    \E k \in DOMAIN pubs : \E s \in Sessions :
        /\ pubs[k].audience = {}
        /\ pubs[k].by = "delete_setup"
        /\ del.pc = "done"
        /\ del.status = 200
        /\ sessions[s].device = pubs[k].device
        /\ sessions[s].subscribed
        /\ sessions[s].emitted # <<>>

\* the publishes session s was subscribed for, in publish order
Received(s) ==
    SelectSeq([k \in DOMAIN pubs |-> k], LAMBDA k : s \in pubs[k].audience)

\* C8: while a session streams, the instructions it has emitted, then those
\* queued, then those not yet taken by the listener, are exactly the
\* instructions received, in the order received, each once; every emitted
\* instruction frame carries the payload that was published; heartbeat
\* frames do not change this.
C8_InstructionOrder ==
    \A s \in Sessions :
        /\ sessions[s].pc = "streaming" =>
            Instructions(sessions[s].emitted \o sessions[s].queue \o sessions[s].inbox)
                = Received(s)
        /\ \E n \in 0..Len(Received(s)) :
            Instructions(sessions[s].emitted) = SubSeq(Received(s), 1, n)
        /\ \A i \in DOMAIN sessions[s].emitted :
            LET item == sessions[s].emitted[i] IN
            IF item.seq = 0 THEN item.text = HeartbeatFrame
            ELSE item.text = Frame("message", pubs[item.seq].payload)

\* C8 witness: a session has emitted an instruction, then a heartbeat, then
\* another instruction
C8_Witness ==
    \E s \in Sessions :
        \E i, j, k \in DOMAIN sessions[s].emitted :
            /\ i < j /\ j < k
            /\ sessions[s].emitted[i].seq > 0
            /\ sessions[s].emitted[j].seq = 0
            /\ sessions[s].emitted[k].seq > 0

\* the session's pubsub.subscribe has returned: its tasks exist from then on
HasSubscribed(s) == sessions[s].listener # "none"

\* the session has published its online event (line 211)
OnlinePublished(s) == sessions[s].pc \notin {"idle"}

\* the session has added its device to the online set (line 212)
OnlineAdded(s) == sessions[s].pc \notin {"idle", "sadd"}

\* C15: a session that has published its online event, or has added its
\* device to the online set, has established its subscription before.
C15_SubscribedBeforeOnline ==
    \A s \in Sessions :
        (OnlinePublished(s) \/ OnlineAdded(s)) => HasSubscribed(s)

\* the generator's finally block has run to its end
FinallyDone(s) == sessions[s].pc = "closed" /\ HasSubscribed(s)

\* C16: when the finally block of a session has finished, its listener and
\* heartbeat tasks have ended, its subscription is released, its removal
\* from the online set is done and its offline event is published.
C16_TeardownComplete ==
    \A s \in Sessions :
        FinallyDone(s) =>
            /\ sessions[s].listener = "done"
            /\ sessions[s].heartbeat = "done"
            /\ ~sessions[s].subscribed
            /\ sessions[s].srem = 1
            /\ sessions[s].offline = 1

\* ========================================================================
\* Status streams (get_all_devices_status), failing Redis commands and
\* process restarts
\* ========================================================================
\* f"event: {event}\ndata: {data}\n\n" of a status stream
StatusFrame(event, data) == [event |-> event, data |-> data]

\* heartbeat ticks so far, over all status streams
RECURSIVE SumObserverBeats(_)
SumObserverBeats(n) ==
    IF n = 0 THEN 0 ELSE observers[n].beats + SumObserverBeats(n - 1)

\* the request arrives and the response starts the generator, which runs to
\* its first await, pubsub.subscribe (lines 270-273)
ObserverOpen(o) ==
    /\ observers[o].pc = "idle"
    /\ \A p \in Observers : p < o => observers[p].pc # "idle"
    /\ observers' = [observers EXCEPT ![o].pc = "subscribing"]
    /\ UNCHANGED <<sessions, online_devices, setups, playlists, pubs, snaps, del, devices, creates, updates, infos, codeVars, actVars>>

\* lines 273-297: the subscription takes effect, the queue and both tasks
\* are created, and the generator awaits redis.smembers
ObserverSubscribe(o) ==
    /\ observers[o].pc = "subscribing"
    /\ observers' = [observers EXCEPT
                       ![o].subscribed = TRUE,
                       ![o].pc = "snapshot",
                       ![o].listener = "listening",
                       ![o].heartbeat = "sleeping"]
    /\ UNCHANGED <<sessions, online_devices, setups, playlists, pubs, snaps, del, devices, creates, updates, infos, codeVars, actVars>>

\* lines 297-299: the online set is read and the snapshot frame is yielded
ObserverSnapshot(o) ==
    /\ observers[o].pc = "snapshot"
    /\ observers' = [observers EXCEPT
                       ![o].pc = "streaming",
                       ![o].emitted = Append(@, StatusFrame("message", InitDevices))]
    /\ UNCHANGED <<sessions, online_devices, setups, playlists, pubs, snaps, del, devices, creates, updates, infos, codeVars, actVars>>

\* lines 278-280: the listener takes the next message and queues its frame
ObserverListenerMessage(o) ==
    /\ observers[o].listener = "listening"
    /\ observers[o].inbox # <<>>
    /\ observers' = [observers EXCEPT
                       ![o].inbox = Tail(@),
                       ![o].queue = QueuePut(@, StatusFrame("update", Head(observers[o].inbox)))]
    /\ UNCHANGED <<sessions, online_devices, setups, playlists, pubs, snaps, del, devices, creates, updates, infos, codeVars, actVars>>

\* lines 287-289: a heartbeat tick
ObserverHeartbeat(o) ==
    /\ observers[o].heartbeat = "sleeping"
    /\ SumObserverBeats(MaxObservers) < MaxObserverBeats
    /\ observers' = [observers EXCEPT
                       ![o].queue = QueuePut(@, StatusFrame("heartbeat", "heartbeat")),
                       ![o].beats = @ + 1]
    /\ UNCHANGED <<sessions, online_devices, setups, playlists, pubs, snaps, del, devices, creates, updates, infos, codeVars, actVars>>

\* a loop that takes queued items while the snapshot is still being read
LoopRunsEarly(o) == observers[o].pc \in {"snapshot", "streaming"}

\* lines 301-303: the loop is entered after the snapshot frame was yielded
LoopRuns(o) == observers[o].pc = "streaming"

\* lines 301-303: one turn of the generator's loop
ObserverLoop(o) ==
    /\ LoopRuns(o)
    /\ observers[o].queue # <<>>
    /\ observers' = [observers EXCEPT
                       ![o].queue = Tail(@),
                       ![o].emitted = Append(@, Head(observers[o].queue))]
    /\ UNCHANGED <<sessions, online_devices, setups, playlists, pubs, snaps, del, devices, creates, updates, infos, codeVars, actVars>>

\* the client goes away. At line 273 that is outside the try; later the
\* finally block (lines 304-306) cancels both tasks.
ObserverDisconnect(o) ==
    /\ observers[o].pc \in {"subscribing", "snapshot", "streaming"}
    /\ observers' = [observers EXCEPT ![o] =
            IF observers[o].pc = "subscribing"
            THEN [observers[o] EXCEPT !.pc = "closed"]
            ELSE [observers[o] EXCEPT
                    !.pc = "closed",
                    !.listener = CancelTask(@),
                    !.heartbeat = CancelSleeper(@),
                    !.queue = <<>>,
                    !.inbox = <<>>]]
    /\ UNCHANGED <<sessions, online_devices, setups, playlists, pubs, snaps, del, devices, creates, updates, infos, codeVars, actVars>>

\* lines 281-282: the cancelled listener unsubscribes
ObserverListenerCancelled(o) ==
    /\ observers[o].listener = "cancelled"
    /\ observers' = [observers EXCEPT ![o].listener = "done", ![o].subscribed = FALSE]
    /\ UNCHANGED <<sessions, online_devices, setups, playlists, pubs, snaps, del, devices, creates, updates, infos, codeVars, actVars>>

\* device.py line 227 raises (Redis refuses or cannot be reached): the
\* exception leaves the except block and ends the listener task; lines
\* 228-230 are not reached
SessionListenerSremFails(s) ==
    /\ sessions[s].listener = "cancelled"
    /\ sessions' = [sessions EXCEPT ![s].listener = "failed"]
    /\ UNCHANGED <<online_devices, setups, playlists, pubs, snaps, del, devices, observers, creates, updates, infos, codeVars, actVars>>

\* a session or status stream of the running process has steps left
LiveSession(s) ==
    \/ sessions[s].pc \in {"sadd", "subscribing", "streaming"}
    \/ sessions[s].listener \in {"cancelled", "publish_offline", "unsubscribe"}

LiveObserver(o) ==
    \/ observers[o].pc \in {"subscribing", "snapshot", "streaming"}
    \/ observers[o].listener = "cancelled"

\* the server process is killed and started again: the tasks of every
\* request are gone without running any handler, and Redis drops the
\* subscriptions of the closed connections. The lifespan startup
\* (src/__init__.py lines 10-39) creates tables and the root admin; it
\* writes nothing to Redis.
Restart ==
    /\ \E s \in Sessions : LiveSession(s)
    /\ sessions' = [s \in Sessions |->
         IF LiveSession(s)
         THEN [sessions[s] EXCEPT !.pc = "killed", !.listener = "killed",
                                  !.heartbeat = "killed", !.subscribed = FALSE,
                                  !.queue = <<>>, !.inbox = <<>>]
         ELSE sessions[s]]
    /\ observers' = [o \in Observers |->
         IF LiveObserver(o)
         THEN [observers[o] EXCEPT !.pc = "killed", !.listener = "killed",
                                   !.heartbeat = "killed", !.subscribed = FALSE,
                                   !.queue = <<>>, !.inbox = <<>>]
         ELSE observers[o]]
    /\ UNCHANGED <<online_devices, setups, playlists, pubs, snaps, del, devices, creates, updates, infos, codeVars, actVars>>

InitStatus == InitSession

NextStatus ==
    \/ \E s \in Sessions :
        \/ \E d \in 1..Len(devices) : SessionOpen(s, d)
        \/ SessionSadd(s)
        \/ SessionSubscribe(s)
        \/ \E why \in {"disconnect", "cancel"} : SessionTerminate(s, why)
        \/ SessionListenerSrem(s)
        \/ SessionListenerSremFails(s)
        \/ SessionListenerOffline(s)
        \/ SessionListenerUnsubscribe(s)
    \/ \E o \in Observers :
        \/ ObserverOpen(o)
        \/ ObserverSubscribe(o)
        \/ ObserverSnapshot(o)
        \/ ObserverListenerMessage(o)
        \/ ObserverHeartbeat(o)
        \/ ObserverLoop(o)
        \/ ObserverDisconnect(o)
        \/ ObserverListenerCancelled(o)
    \/ Restart

SpecStatus == InitStatus /\ [][NextStatus]_vars

\* ---- claims on status streams, failures and restarts --------------------
\* C14: on every status stream the first frame emitted is the snapshot, no
\* later frame is a snapshot, and the loop that emits update frames runs
\* only after the snapshot was emitted.
C14_SnapshotFirst ==
    \A o \in Observers :
        LET e == observers[o].emitted IN
        /\ e # <<>> => e[1].event = "message"
        /\ \A i \in DOMAIN e : i > 1 => e[i].event # "message"
        /\ observers[o].pc = "streaming" => e # <<>>

\* C14 witness: a stream has emitted a snapshot that lists a device, and an
\* update frame after it
C14_Witness ==
    \E o \in Observers :
        LET e == observers[o].emitted IN
        /\ Len(e) >= 2
        /\ e[1].event = "message"
        /\ e[1].data # <<>>
        /\ \E i \in DOMAIN e : e[i].event = "update"

\* C17: a session whose removal from the online set failed has still
\* published its offline event, released its subscription and written
\* last-seen at its end.
C17_CleanupBestEffort ==
    \A s \in Sessions :
        sessions[s].listener = "failed" =>
            /\ sessions[s].offline = 1
            /\ sessions[s].unsubscribes = 1
            /\ ~sessions[s].subscribed
            /\ sessions[s].last_seen_writes = 2

\* C18: no online event is published for a device that was in the online
\* set already, and no offline event for a device that was not in the set
\* when it was to be removed: no update frame of a status stream reports a
\* presence mark that changed nothing.
C18_PresenceIdempotent ==
    \A o \in Observers :
        \A i \in DOMAIN observers[o].emitted :
            LET item == observers[o].emitted[i] IN
            item.event = "update" => ~item.data.noop

\* the process was restarted
Restarted == \E s \in Sessions : sessions[s].pc = "killed"

\* the session was established after the latest restart
SinceRestart(s) ==
    /\ sessions[s].pc \notin {"idle", "killed"}
    /\ \A t \in Sessions : sessions[t].pc = "killed" => t < s

\* C19: after a restart that killed live sessions, every device in the
\* online set has a session established after the restart that added it.
C19_EmptyAfterRestart ==
    Restarted =>
        \A k \in DOMAIN online_devices :
            \E s \in Sessions :
                /\ sessions[s].device = online_devices[k]
                /\ SinceRestart(s)
                /\ OnlineAdded(s)

\* ========================================================================
\* create_setup
\* ========================================================================
\* setup names an admin may enter
SetupNames == {<<"Morning">>, <<"Evening">>}

\* device lists an admin may enter (SetupInput.devices)
DeviceLists == {<<>>, <<1>>, <<1, 2>>, <<2, 1>>, <<2, NoSuchDevice>>}

\* select(Setup).filter_by(name=name).first() is not None
SetupNameExists(name) == \E row \in setups : row.name = name

\* the id the database gives the next Setup row
NewSetupId ==
    1 + (CHOOSE n \in {0} \cup {row.id : row \in setups} :
            \A row \in setups : row.id <= n)

\* the members of the list
Members(list) == {list[k] : k \in DOMAIN list}

\* the days of the week the overlap check goes through (lines 93-101)
Days ==
    {"monday", "tuesday", "wednesday", "thursday", "friday", "saturday", "sunday"}

\* a PlaylistInput: times are <<hour, minute>> for "HH:MM"
Playlist(name, start_time, end_time, days, images, videos) ==
    [name |-> name, start_time |-> start_time, end_time |-> end_time,
     days |-> days, images |-> images, videos |-> videos]

\* SetupInput.playlists an admin may enter: a valid list given latest first,
\* two playlists of one name, two that overlap on monday, one without media
\* after a good one, one that does not start before it ends after a good one
PlaylistLists ==
    {<<Playlist(<<"Noon">>, <<12, 0>>, <<14, 0>>, {"monday"}, <<>>, <<"u1">>),
       Playlist(<<"Early">>, <<9, 0>>, <<12, 0>>, {"monday", "tuesday"}, <<"u1">>, <<>>)>>,
     <<Playlist(<<"Early">>, <<9, 0>>, <<12, 0>>, {"monday"}, <<"u1">>, <<>>),
       Playlist(<<"Early">>, <<12, 0>>, <<14, 0>>, {"tuesday"}, <<"u1">>, <<>>)>>,
     <<Playlist(<<"Early">>, <<9, 0>>, <<12, 0>>, {"monday"}, <<"u1">>, <<>>),
       Playlist(<<"Noon">>, <<11, 30>>, <<14, 0>>, {"monday"}, <<"u1">>, <<>>)>>,
     <<Playlist(<<"Early">>, <<9, 0>>, <<12, 0>>, {"monday"}, <<"u1">>, <<>>),
       Playlist(<<"Noon">>, <<12, 0>>, <<14, 0>>, {"monday"}, <<>>, <<>>)>>,
     <<Playlist(<<"Early">>, <<9, 0>>, <<12, 0>>, {"monday"}, <<"u1">>, <<>>),
       Playlist(<<"Noon">>, <<14, 0>>, <<14, 0>>, {"tuesday"}, <<"u1">>, <<>>)>>}

\* datetime.strptime(t, "%H:%M"), as minutes since midnight
Minutes(t) == t[1] * 60 + t[2]

\* lines 84-85: len(playlist_names) != len(set(playlist_names))
DuplicatePlaylistNames(pls) ==
    Len(pls) # Cardinality({pls[k].name : k \in DOMAIN pls})

\* list.sort(key=start_time): stable, equal keys keep their order
RECURSIVE InsertByStart(_, _)
InsertByStart(p, sorted) ==
    IF sorted = <<>> THEN <<p>>
    ELSE IF Minutes(Head(sorted).start_time) <= Minutes(p.start_time)
         THEN <<Head(sorted)>> \o InsertByStart(p, Tail(sorted))
         ELSE <<p>> \o sorted

RECURSIVE SortByStart(_)
SortByStart(pls) ==
    IF pls = <<>> THEN <<>>
    ELSE InsertByStart(pls[Len(pls)], SortByStart(SubSeq(pls, 1, Len(pls) - 1)))

\* lines 102-117: on one day, a playlist ends after the next one starts
OverlapOn(day, pls) ==
    LET day_playlists == SortByStart(SelectSeq(pls, LAMBDA p : day \in p.days))
    IN \E i \in 1..(Len(day_playlists) - 1) :
        Minutes(day_playlists[i].end_time) > Minutes(day_playlists[i + 1].start_time)

\* lines 101-117: the check over the seven days
Overlaps(pls) == \E day \in Days : OverlapOn(day, pls)

\* the id the database gives the next Playlist row
NewPlaylistId(rows) ==
    1 + (CHOOSE n \in {0} \cup {row.id : row \in rows} : \A row \in rows : row.id <= n)

\* the rows of the three tables as the request's database session sees them
Database == [setups |-> setups, playlists |-> playlists, devices |-> devices]

\* lines 125-161: the playlist loop: a playlist without media or that does
\* not start before it ends stops the request with 400; every playlist before
\* it has been added and flushed
RECURSIVE AddPlaylists(_, _, _)
AddPlaylists(db, pls, setup_id) ==
    IF pls = <<>> THEN [status |-> 200, db |-> db]
    ELSE LET playlist_data == Head(pls) IN
        IF Len(playlist_data.images) = 0 /\ Len(playlist_data.videos) = 0
        THEN [status |-> 400, db |-> db]
        ELSE IF Minutes(playlist_data.start_time) >= Minutes(playlist_data.end_time)
        THEN [status |-> 400, db |-> db]
        ELSE AddPlaylists(
                [db EXCEPT !.playlists = @ \cup
                    {[id |-> NewPlaylistId(db.playlists), setup_id |-> setup_id,
                      name |-> playlist_data.name,
                      start_time |-> playlist_data.start_time,
                      end_time |-> playlist_data.end_time,
                      days |-> playlist_data.days,
                      images |-> playlist_data.images,
                      videos |-> playlist_data.videos]}],
                Tail(pls), setup_id)

\* lines 164-175: the linking loop: an unknown device id stops the request
\* with 404; every device before it has been pointed to the new setup
RECURSIVE LinkDevices(_, _, _)
LinkDevices(db, list, setup_id) ==
    IF list = <<>> THEN [status |-> 200, db |-> db]
    ELSE IF ~(\E k \in DOMAIN db.devices : db.devices[k].id = Head(list))
    THEN [status |-> 404, db |-> db]
    ELSE LinkDevices(
            [db EXCEPT !.devices = [k \in DOMAIN db.devices |->
                IF db.devices[k].id = Head(list)
                THEN [db.devices[k] EXCEPT !.setup_id = setup_id]
                ELSE db.devices[k]]],
            Tail(list), setup_id)

\* lines 75-175: the checks and the writes of the request up to the commit:
\* the status the request is heading for and the rows its session holds
CreateSetupSession(name, pls, list) ==
    IF SetupNameExists(name) THEN [status |-> 409, db |-> Database]
    ELSE IF DuplicatePlaylistNames(pls) THEN [status |-> 400, db |-> Database]
    ELSE IF Overlaps(pls) THEN [status |-> 400, db |-> Database]
    ELSE LET flushed == [Database EXCEPT !.setups = @ \cup
                            {[id |-> NewSetupId, name |-> name]}]
             added == AddPlaylists(flushed, pls, NewSetupId)
         IN IF added.status # 200 THEN added
            ELSE LinkDevices(added.db, list, NewSetupId)

\* a rollback that leaves what was flushed
RollbackKeepsFlushed(stored, session) == session

\* lines 195-200: session.rollback(): the rows are as they were stored
Rollback(stored, session) == stored

\* lines 75-177: the checks, the new Setup row with its playlists and media,
\* the linking loop and the commit; a failed check rolls the session back.
\* The variable `device` is left holding the last device linked.
CreateSetupCommit(c, name, pls, list) ==
    /\ creates[c].pc = "idle"
    /\ \A b \in SetupCalls : b < c => creates[b].pc # "idle"
    /\ LET out == CreateSetupSession(name, pls, list)
           db == IF out.status = 200 THEN out.db ELSE Rollback(Database, out.db)
       IN /\ setups' = db.setups
          /\ playlists' = db.playlists
          /\ devices' = db.devices
          /\ creates' = [creates EXCEPT ![c] =
               IF out.status # 200
               THEN [creates[c] EXCEPT !.pc = "done", !.name = name,
                                       !.devices = list, !.status = out.status]
               ELSE [pc |-> IF list = <<>> THEN "done" ELSE "notify",
                     name |-> name, devices |-> list, setup |-> NewSetupId,
                     device |-> IF list = <<>> THEN 0 ELSE list[Len(list)],
                     sent |-> <<>>,
                     status |-> IF list = <<>> THEN 200 ELSE 0]]
    /\ UNCHANGED <<sessions, online_devices, pubs, snaps, del, observers, updates, infos, codeVars, actVars>>

\* lines 180-182: one turn of the notification loop: the topic is built
\* from device.id, the device the linking loop ended on. After the last turn
\* the response is built and returned (lines 184-193).
CreateSetupNotify(c) ==
    /\ creates[c].pc = "notify"
    /\ PublishInstruction(creates[c].device, UpdateSetupPayload, "create_setup")
    /\ LET sent == Append(creates[c].sent, creates[c].device) IN
        creates' = [creates EXCEPT
                      ![c].sent = sent,
                      ![c].pc = IF Len(sent) = Len(creates[c].devices)
                                THEN "done" ELSE "notify",
                      ![c].status = IF Len(sent) = Len(creates[c].devices)
                                    THEN 200 ELSE 0]
    /\ UNCHANGED <<online_devices, setups, playlists, snaps, del, devices, observers, updates, infos, codeVars, actVars>>

\* the Setup row with the id is stored
SetupExists(setup_id) == \E row \in setups : row.id = setup_id

\* ---- update_setup ------------------------------------------------------
\* the fields of the request model SetupUpdate (models/setup.py lines 46-52)
SetupUpdateFields ==
    {"name", "playlists_to_add", "playlists_to_update", "playlists_to_delete",
     "devices_to_add", "devices_to_remove"}

\* devices_to_add and devices_to_remove an admin may enter
DeviceChanges ==
    {[add |-> <<>>, remove |-> <<>>], [add |-> <<1>>, remove |-> <<2>>]}

\* reading data.<field>: an attribute the model does not have raises
\* AttributeError
HasField(field) == field \in SetupUpdateFields

\* lines 240-384: the lookup (404), the pending changes, the overlap check
\* that reads data.playlists (line 273), the device changes and the commit.
\* An exception is caught at line 402, the session is rolled back and the
\* request fails with 500.
UpdateSetupCommit(u, setup_id, name, add, remove) ==
    /\ updates[u].pc = "idle"
    /\ \A b \in UpdateCalls : b < u => updates[b].pc # "idle"
    /\ LET req == [updates[u] EXCEPT !.setup = setup_id, !.name = name,
                                     !.devices_to_add = add,
                                     !.devices_to_remove = remove]
           linked == [k \in DOMAIN devices |->
                        IF devices[k].id \in Members(remove)
                           /\ devices[k].setup_id = setup_id
                        THEN [devices[k] EXCEPT !.setup_id = 0]
                        ELSE IF devices[k].id \in Members(add)
                        THEN [devices[k] EXCEPT !.setup_id = setup_id]
                        ELSE devices[k]]
           rows == SelectSeq(linked, LAMBDA row : row.setup_id = setup_id)
           targets == [k \in DOMAIN rows |-> rows[k].id]
       IN
       IF ~SetupExists(setup_id)
       THEN /\ updates' = [updates EXCEPT ![u] = [req EXCEPT !.pc = "done", !.status = 404]]
            /\ UNCHANGED <<setups, playlists, devices>>
       ELSE IF ~HasField("playlists")
       THEN /\ updates' = [updates EXCEPT ![u] = [req EXCEPT !.pc = "done", !.status = 500]]
            /\ UNCHANGED <<setups, playlists, devices>>
       ELSE /\ setups' = {IF row.id = setup_id /\ name # <<>>
                          THEN [row EXCEPT !.name = name] ELSE row : row \in setups}
            /\ UNCHANGED playlists
            /\ devices' = linked
            /\ updates' = [updates EXCEPT ![u] =
                 [req EXCEPT !.pc = IF targets = <<>> THEN "done" ELSE "notify",
                             !.pending = targets,
                             !.status = IF targets = <<>> THEN 200 ELSE 0]]
    /\ UNCHANGED <<sessions, online_devices, pubs, snaps, del, observers, creates, infos, codeVars, actVars>>

\* lines 385-398: one turn of the notification loop over setup.devices; after
\* the last turn the response is returned
UpdateSetupNotify(u) ==
    /\ updates[u].pc = "notify"
    /\ PublishInstruction(Head(updates[u].pending), UpdateSetupPayload, "update_setup")
    /\ updates' = [updates EXCEPT
                     ![u].pending = Tail(@),
                     ![u].sent = Append(@, Head(updates[u].pending)),
                     ![u].pc = IF Len(updates[u].pending) = 1 THEN "done" ELSE "notify",
                     ![u].status = IF Len(updates[u].pending) = 1 THEN 200 ELSE 0]
    /\ UNCHANGED <<online_devices, setups, playlists, snaps, del, devices, observers, creates, infos, codeVars, actVars>>

InitSetup == InitSession

NextSetup ==
    \/ \E s \in Sessions :
        \/ \E d \in 1..Len(devices) : SessionOpen(s, d)
        \/ SessionSadd(s)
        \/ SessionSubscribe(s)
        \/ SessionListenerMessage(s)
        \/ SessionLoop(s)
        \/ \E why \in {"disconnect", "cancel"} : SessionTerminate(s, why)
        \/ SessionListenerSrem(s)
        \/ SessionListenerOffline(s)
        \/ SessionListenerUnsubscribe(s)
    \/ \E c \in SetupCalls :
        \/ \E name \in SetupNames, pls \in PlaylistLists, list \in DeviceLists :
            CreateSetupCommit(c, name, pls, list)
        \/ CreateSetupNotify(c)
    \/ \E u \in UpdateCalls :
        \E setup_id \in {1, NoSuchSetup}, name \in {<<"Evening">>},
           change \in DeviceChanges :
            UpdateSetupCommit(u, setup_id, name, change.add, change.remove)

SpecSetup == InitSetup /\ [][NextSetup]_vars

\* how many times the list holds the value
Count(list, d) == Cardinality({k \in DOMAIN list : list[k] = d})

\* C20: when a create_setup request has returned 200, it has published
\* exactly one update_setup instruction on the topic of each device of its
\* list and none on the topic of any other device.
C20_OneInstructionPerLinkedDevice ==
    \A c \in SetupCalls :
        (creates[c].pc = "done" /\ creates[c].status = 200) =>
            \A d \in 1..Len(devices) :
                Count(creates[c].sent, d) = Count(creates[c].devices, d)

\* ========================================================================
\* Further claims on instructions and sessions
\* ========================================================================
\* C21: once delete_setup has published an update_setup instruction, the
\* deletion of its setup is committed: a device that reads its state on
\* receiving the instruction finds no such setup.
C21_DeleteBeforeNotify ==
    DeleteSetupPublishes # {} => ~SetupExists(del.setup)

\* the ids of the devices assigned to the setup, in id order
DevicesOf(setup_id) ==
    LET rows == SelectSeq(devices, LAMBDA row : row.setup_id = setup_id)
    IN [k \in DOMAIN rows |-> rows[k].id]

\* C22: an update_setup request on an existing setup has, when it returns,
\* answered 200, committed the requested name and published one
\* update_setup instruction to each device assigned to the setup.
C22_UpdateCommitsThenNotifies ==
    \A u \in UpdateCalls :
        (updates[u].pc = "done" /\ updates[u].status # 404) =>
            /\ updates[u].status = 200
            /\ \E row \in setups :
                row.id = updates[u].setup /\ row.name = updates[u].name
            /\ updates[u].sent = DevicesOf(updates[u].setup)

\* the publishes made by send_snapshot_instruction
SnapshotPublishes == {k \in DOMAIN pubs : pubs[k].by = "snapshot"}

\* C23: a send_snapshot_instruction request that has returned answered 404
\* if no device has the id, and 409 if the device exists and the subscriber
\* count it read was 0; only the requests answered 200 have published.
C23_SnapshotRejected ==
    /\ \A q \in Snaps :
        snaps[q].pc = "done" =>
            /\ ~DeviceExists(snaps[q].device) => snaps[q].status = 404
            /\ (DeviceExists(snaps[q].device) /\ snaps[q].numsub = 0)
                    => snaps[q].status = 409
            /\ snaps[q].status \in {200, 404, 409}
    /\ Cardinality(SnapshotPublishes)
            = Cardinality({q \in Snaps : snaps[q].status = 200})

\* C23 witness: a request for a device that is in the online set but has no
\* subscribed session was answered 409, and nothing was published for it
C23_Witness ==
    \E q \in Snaps :
        /\ snaps[q].pc = "done"
        /\ snaps[q].status = 409
        /\ IsOnline(snaps[q].device)
        /\ SnapshotPublishes = {}

\* C24: a session that has left the streaming state was ended by a client
\* disconnect or by a cancellation, never by its own loop; while it streams
\* its listener and heartbeat tasks are running.
C24_EndsOnlyWhenTerminated ==
    \A s \in Sessions :
        /\ sessions[s].pc = "closed" => sessions[s].cause \in {"disconnect", "cancel"}
        /\ sessions[s].pc = "streaming" =>
            /\ sessions[s].listener = "listening"
            /\ sessions[s].heartbeat = "sleeping"
            /\ sessions[s].subscribed

\* C24 witness: a session that has emitted a heartbeat and two instructions
\* is still streaming
C24_Witness ==
    \E s \in Sessions :
        /\ sessions[s].pc = "streaming"
        /\ sessions[s].beats >= 1
        /\ Len(Instructions(sessions[s].emitted)) >= 2
        /\ Len(sessions[s].emitted) >= 3

\* C25: an instruction published while several sessions of the device were
\* subscribed is emitted at most once by each of them, and each of them
\* that is still streaming has emitted it or holds it, once, to be emitted.
C25_EachSessionDelivers ==
    \A k \in DOMAIN pubs :
        \A s \in pubs[k].audience :
            /\ Count(Instructions(sessions[s].emitted), k) <= 1
            /\ sessions[s].pc = "streaming" =>
                Count(Instructions(sessions[s].emitted \o sessions[s].queue
                                   \o sessions[s].inbox), k) = 1

\* C25 witness: an instruction published to two subscribed sessions of one
\* device has been emitted by both
C25_Witness ==
    \E k \in DOMAIN pubs :
        /\ Cardinality(pubs[k].audience) = 2
        /\ \A s \in pubs[k].audience :
            Count(Instructions(sessions[s].emitted), k) = 1

\* ========================================================================
\* Further claims on the activation handshake
\* ========================================================================
\* every stream that was opened on the code has ended or was refused
StreamsSettled(code) ==
    \A a \in ActStreams :
        streams[a].code = code => streams[a].pc \in {"rejected", "closed"}

\* the streams that have emitted the credential of the device row
DeliveredOn(row) ==
    {a \in ActStreams :
        \E i \in DOMAIN streams[a].emitted :
            streams[a].emitted[i]
                = Frame("message", CredentialPayload(row.name, row.api_key))}

\* C26: once a create_device request that created a device has returned and
\* the streams on its code have ended, the credential of the device has been
\* emitted as a message frame by exactly one activation stream.
C26_CredentialDelivered ==
    \A r \in Reqs :
        (reqs[r].pc = "done" /\ reqs[r].device # 0 /\ StreamsSettled(reqs[r].code))
            => Cardinality(DeliveredOn(devices[reqs[r].device])) = 1

\* ========================================================================
\* Further claims on presence
\* ========================================================================
\* no session of the device is attaching or tearing down: each one streams,
\* or has ended with its whole teardown run
PresenceSettled(d) ==
    \A s \in Sessions :
        sessions[s].device = d =>
            \/ sessions[s].pc = "streaming"
            \/ sessions[s].pc = "closed" /\ sessions[s].listener = "done"

\* the sessions of the device that are streaming
Streaming(d) ==
    {s \in Sessions : sessions[s].device = d /\ sessions[s].pc = "streaming"}

\* C27: whenever no session of a device is attaching or tearing down, the
\* device is in the online set exactly if one of its sessions is streaming.
C27_OnlineIffStreaming ==
    \A d \in 1..Len(devices) :
        PresenceSettled(d) => (IsOnline(d) <=> Streaming(d) # {})

\* what an observer holds after applying the frames, in order, to the view:
\* a snapshot replaces the view, an update adds or removes its device
RECURSIVE ApplyFrames(_, _)
ApplyFrames(frames, view) ==
    IF frames = <<>> THEN view
    ELSE LET f == Head(frames) IN
         ApplyFrames(Tail(frames),
            IF f.event = "message" THEN Members(f.data)
            ELSE IF f.event = "update"
                 THEN IF f.data.status = "online"
                      THEN view \cup {f.data.id}
                      ELSE view \ {f.data.id}
                 ELSE view)

\* attaches and detaches have quiesced: every session streams or has ended
\* with nothing left to run, none was killed and no cleanup command failed
SessionsQuiesced ==
    \A s \in Sessions :
        \/ sessions[s].pc \in {"idle", "streaming"}
        \/ sessions[s].pc = "closed" /\ sessions[s].listener \in {"none", "done"}

\* the status stream has emitted its snapshot and everything it received
CaughtUp(o) ==
    /\ observers[o].pc = "streaming"
    /\ observers[o].inbox = <<>>
    /\ observers[o].queue = <<>>

\* C28: once attaches and detaches have quiesced, a status stream that has
\* emitted all it received shows, by its snapshot and its update frames
\* applied in order, exactly the devices of the online set.
C28_ObserverViewConverges ==
    \A o \in Observers :
        (SessionsQuiesced /\ CaughtUp(o)) =>
            ApplyFrames(observers[o].emitted, {}) = Members(online_devices)

\* the activation stream has ended and no task of it has a step left
StreamOver(a) ==
    /\ streams[a].pc = "closed"
    /\ streams[a].listener = "done"

\* C29: an activation stream that had subscribed and has ended, by whatever
\* path, has run the release of its subscription exactly once.
C29_UnsubscribeOnce ==
    \A a \in ActStreams : StreamOver(a) => streams[a].unsubscribes = 1

\* The event loop runs every task that is ready and Redis answers every
\* command: the generator's pending unsubscribe and the cancelled listener's
\* handler are eventually run.
SpecActivationFair ==
    /\ SpecActivation
    /\ \A a \in ActStreams :
        /\ WF_vars(StreamUnsubscribe(a))
        /\ WF_vars(StreamListenerCancelled(a))

\* the generator of the stream has left its loop
StreamEnded(a) == streams[a].pc \in {"unsubscribe", "closed"}

C31_RequestStep ==
    \A a \in ActStreams :
        (/\ streams[a].pc = "idle"
         /\ streams'[a].pc # "idle"
         /\ NumSub(streams'[a].code) # 0)
            => /\ streams'[a].pc = "rejected"
               /\ ~streams'[a].subscribed
               /\ \A b \in ActStreams : b # a => streams'[b] = streams[b]

C31_RejectedStaysOut ==
    \A a \in ActStreams :
        streams[a].pc = "rejected"
            => streams[a] = [IdleStream EXCEPT !.pc = "rejected",
                                               !.code = streams[a].code]

C31_TakenCodeRejected == [][C31_RequestStep]_vars /\ []C31_RejectedStaysOut

\* C31 witness: a request was rejected and the subscriber that was attached
\* has since been given the credential published on the code
C31_Witness ==
    \E a, b \in ActStreams :
        /\ streams[a].pc = "rejected"
        /\ streams[b].code = streams[a].code
        /\ b < a
        /\ \E i \in DOMAIN streams[b].emitted : IsMessageFrame(streams[b].emitted[i])

\* ------------------------------------------------------------------------
\* C32: a create_device request that found a subscriber on its code and
\* whose name is borne by a device row is answered 409: the step adds no
\* row, publishes nothing and changes no stream, so the waiting subscriber
\* stays attached; and no two device rows ever have the same name.
\* ------------------------------------------------------------------------
NameInUse(name) == \E k \in DOMAIN devices : devices[k].name = name

C32_DuplicateStep ==
    \A r \in Reqs :
        (/\ reqs[r].pc = "checked"
         /\ reqs'[r].pc # "checked"
         /\ reqs[r].numsub # 0
         /\ NameInUse(reqs[r].name))
            => /\ reqs'[r].pc = "done"
               /\ reqs'[r].status = 409
               /\ reqs'[r].device = 0
               /\ reqs'[r].published = 0
               /\ devices' = devices
               /\ streams' = streams

C32_NamesDistinct ==
    \A i, j \in DOMAIN devices : devices[i].name = devices[j].name => i = j

C32_DuplicateNameRejected == [][C32_DuplicateStep]_vars /\ []C32_NamesDistinct

\* C32 witness: a registration was answered 409 and the subscriber of its
\* code is still attached and streaming
C32_Witness ==
    \E r \in Reqs : \E a \in ActStreams :
        /\ reqs[r].pc = "done"
        /\ reqs[r].status = 409
        /\ reqs[r].numsub # 0
        /\ streams[a].code = reqs[r].code
        /\ streams[a].subscribed
        /\ streams[a].pc = "streaming"
        /\ streams[a].listener = "listening"
        /\ streams[a].inbox = <<>>
        /\ streams[a].emitted = <<>>

\* ------------------------------------------------------------------------
\* C33: a create_setup request that fails a check (a setup name in use,
\* playlist names that repeat, playlists that overlap on a day, a playlist
\* without media or that does not start before it ends, an unknown device
\* id) leaves the Setup, Playlist and Device tables as they were and
\* publishes no instruction.
\* ------------------------------------------------------------------------
CreateSetupFailed(c) ==
    creates[c].pc = "done" /\ creates[c].status \in {400, 404, 409}

C33_FailedStep ==
    \A c \in SetupCalls :
        (creates[c].pc = "idle" /\ CreateSetupFailed(c)')
            => /\ setups' = setups
               /\ playlists' = playlists
               /\ devices' = devices
               /\ pubs' = pubs
               /\ sessions' = sessions

C33_FailedSilent ==
    \A c \in SetupCalls :
        CreateSetupFailed(c) =>
            /\ creates[c].sent = <<>>
            /\ creates[c].setup = 0
            /\ creates[c].device = 0

C33_FailedCreateLeavesNothing == [][C33_FailedStep]_vars /\ []C33_FailedSilent

\* C33 witness: a create_setup request under a free setup name was refused
\* with 400, and the tables are those of the start
C33_Witness ==
    \E c \in SetupCalls :
        /\ CreateSetupFailed(c)
        /\ creates[c].status = 400
        /\ ~SetupNameExists(creates[c].name)
        /\ setups = StoredSetups
        /\ playlists = StoredPlaylists

\* ========================================================================
\* update_device_info
\* ========================================================================
\* the Setup and Playlist rows when the admin has stored a second setup
TwoSetups == StoredSetups \cup {[id |-> 2, name |-> <<"Evening">>]}

TwoPlaylists ==
    StoredPlaylists \cup
        {[id |-> 2, setup_id |-> 2, name |-> <<"Late">>, start_time |-> <<18, 0>>,
          end_time |-> <<22, 0>>, days |-> {"monday"}, images |-> <<>>,
          videos |-> <<"u1">>]}

\* request bodies an admin may send: data.model_dump(exclude_unset=True),
\* the fields that were set with their values (0 for a setup_id of null)
DeviceUpdates ==
    {[f \in {"setup_id"} |-> 2],
     [f \in {"setup_id"} |-> 0],
     [f \in {"setup_id"} |-> NoSuchSetup],
     [f \in {"name"} |-> <<"Foyer">>],
     [f \in {"name"} |-> <<"Hall">>]}

\* the row of the device with the id
DeviceRow(device_id) ==
    devices[CHOOSE k \in DOMAIN devices : devices[k].id = device_id]

\* device.sqlmodel_update(update_data)
SqlmodelUpdate(row, update_data) ==
    [row EXCEPT
        !.name = IF "name" \in DOMAIN update_data THEN update_data["name"] ELSE @,
        !.setup_id = IF "setup_id" \in DOMAIN update_data
                     THEN update_data["setup_id"] ELSE @]

\* device.py lines 163-189: the whole handler, which has no await: the
\* lookup (404), the name check (409), the update and the commit. The
\* database refuses a setup_id no Setup row has (foreign key setup.id): the
\* commit raises and the request fails with 500. Nothing is published.
UpdateDeviceInfo(i, device_id, update_data) ==
    /\ infos[i].pc = "idle"
    /\ \A j \in InfoCalls : j < i => infos[j].pc # "idle"
    /\ IF ~DeviceExists(device_id)
       THEN /\ infos' = [infos EXCEPT ![i].pc = "done", ![i].device = device_id,
                                      ![i].status = 404]
            /\ UNCHANGED devices
       ELSE IF "name" \in DOMAIN update_data /\ DeviceNameExists(update_data["name"])
       THEN /\ infos' = [infos EXCEPT ![i].pc = "done", ![i].device = device_id,
                                      ![i].status = 409]
            /\ UNCHANGED devices
       ELSE LET row == SqlmodelUpdate(DeviceRow(device_id), update_data) IN
            IF row.setup_id # 0 /\ ~SetupExists(row.setup_id)
            THEN /\ infos' = [infos EXCEPT ![i].pc = "done", ![i].device = device_id,
                                           ![i].status = 500]
                 /\ UNCHANGED devices
            ELSE /\ devices' = [k \in DOMAIN devices |->
                                  IF devices[k].id = device_id THEN row ELSE devices[k]]
                 /\ infos' = [infos EXCEPT ![i] =
                      [pc |-> "done", device |-> device_id,
                       was |-> DeviceRow(device_id).setup_id,
                       now |-> row.setup_id, status |-> 200]]
    /\ UNCHANGED <<sessions, online_devices, setups, playlists, pubs, snaps, del,
                   observers, creates, updates, codeVars, actVars>>

InitDevice ==
    /\ activation_code_counter = <<>>
    /\ CodeIdle
    /\ ActIdle
    /\ SessIdle
    /\ devices = RegisteredDevices
    /\ setups = TwoSetups
    /\ playlists = TwoPlaylists

NextDevice ==
    \/ \E s \in Sessions :
        \/ \E d \in 1..Len(devices) : SessionOpen(s, d)
        \/ SessionSadd(s)
        \/ SessionSubscribe(s)
        \/ SessionListenerMessage(s)
        \/ SessionLoop(s)
        \/ \E why \in {"disconnect", "cancel"} : SessionTerminate(s, why)
        \/ SessionListenerSrem(s)
        \/ SessionListenerOffline(s)
        \/ SessionListenerUnsubscribe(s)
    \/ \E i \in InfoCalls :
        \E device_id \in {1, NoSuchDevice}, update_data \in DeviceUpdates :
            UpdateDeviceInfo(i, device_id, update_data)
    \/ \E setup_id \in {2, NoSuchSetup} : DeleteSetupStart(setup_id)
    \/ DeleteSetupNotify
    \/ DeleteSetupCommit

SpecDevice == InitDevice /\ [][NextDevice]_vars

\* no admin request is between its first and its last step
AdminIdle ==
    /\ del.pc \in {"idle", "done"}
    /\ \A c \in SetupCalls : creates[c].pc \in {"idle", "done"}
    /\ \A u \in UpdateCalls : updates[u].pc \in {"idle", "done"}
    /\ \A i \in InfoCalls : infos[i].pc \in {"idle", "done"}

\* an update_setup instruction has been published on the device's topic
Notified(d) ==
    \E k \in DOMAIN pubs : pubs[k].device = d /\ pubs[k].payload = UpdateSetupPayload

\* C34: when the admin requests have returned, every device that is
\* assigned to another setup than at the start (or to none) has had an
\* update_setup instruction published on its topic.
C34_AssignmentChangeNotified ==
    AdminIdle =>
        \A k \in DOMAIN devices :
            devices[k].setup_id # RegisteredDevices[k].setup_id
                => Notified(devices[k].id)

\* ========================================================================
\* Issued codes and the activation handshake together
\* ========================================================================
\* the codes get_unique_activation_code has returned
IssuedCodes == {retlog[k].code : k \in DOMAIN retlog}

\* codes a client or an admin may send: the issued ones and one of their own
\* choosing (the path parameter is any string, DeviceInput.code any integer
\* of nine digits)
SentCodes == IssuedCodes \cup {123456789}

\* One code is issued. The counter key is absent at the start, so the call
\* does not reach the overflow branch; the streams run without timer events
\* and their clients stay connected.
NextHandshake ==
    \/ \E i \in {1} :
        \/ GetCodeExists(i)
        \/ GetCodeSeed(i)
        \/ GetCodeIncr(i)
    \/ \E a \in ActStreams :
        \/ \E code \in SentCodes : StatusRequest(a, code)
        \/ StreamSubscribe(a)
        \/ StreamListenerMessage(a)
        \/ StreamLoop(a)
        \/ StreamUnsubscribe(a)
    \/ \E r \in Reqs :
        \/ \E code \in SentCodes, name \in Names : CreateDeviceNumsub(r, code, name)
        \/ CreateDeviceCommit(r)
        \/ CreateDevicePublish(r)

SpecHandshake == InitActivation /\ [][NextHandshake]_vars

\* C35: every code a stream is subscribed to, and every code a device was
\* created against, had been returned by get_unique_activation_code.
C35_OnlyIssuedCodes ==
    /\ \A a \in ActStreams : streams[a].subscribed => streams[a].code \in IssuedCodes
    /\ \A r \in Reqs : reqs[r].device # 0 => reqs[r].code \in IssuedCodes

====
